---- MODULE Spec2Model ----
(***************************************************************************)
(* net-hippie: the Rust core of the HTTP client (src/src/lib.rs).          *)
(*                                                                         *)
(* RustClient::new builds one reqwest client (timeout 10 s, connect        *)
(* timeout 10 s, redirect policy none) and one tokio runtime.              *)
(* RustClient::execute_request validates the method, builds the request,   *)
(* sends it once, and either converts the response (convert_response) or   *)
(* maps the send error (map_reqwest_error).  RustResponse offers code,     *)
(* body and get_header.                                                    *)
(*                                                                         *)
(* Text is modelled as a sequence of characters (one-character strings),   *)
(* so that to_uppercase / to_lowercase are computed and not assumed.  The  *)
(* character "long_s" stands for U+017F, whose uppercase is "S".           *)
(***************************************************************************)
EXTENDS Integers, Sequences, FiniteSets, TLC

\* ------------------------------------------------------------------ bounds

\* Number of caller threads that share one client in SpecConc.
NumThreads == 2

\* Total number of execute_request calls explored in one behaviour.
MaxCalls == 2

\* ------------------------------------------------- configuration (new())

\* Client::builder().timeout(Duration::from_secs(10))
RequestTimeoutSecs == 10

\* Client::builder().connect_timeout(Duration::from_secs(10))
ConnectTimeoutSecs == 10

\* The mutated configuration: reqwest's default policy, which follows.
RedirectPolicyDefault == "limited"

\* Client::builder().redirect(reqwest::redirect::Policy::none())
RedirectPolicy == "none"

\* -------------------------------------------------------------- characters

\* <<lower, upper>> pairs of the letters the model's texts use.
CasePairs ==
    { <<"a","A">>, <<"c","C">>, <<"d","D">>, <<"e","E">>, <<"g","G">>,
      <<"h","H">>, <<"l","L">>, <<"o","O">>, <<"p","P">>, <<"s","S">>,
      <<"t","T">>, <<"u","U">>, <<"x","X">>, <<"f","F">> }

\* char::to_uppercase: a lowercase letter gives its uppercase, U+017F gives S.
UpperChar(c) ==
    IF \E p \in CasePairs : p[1] = c
    THEN (CHOOSE p \in CasePairs : p[1] = c)[2]
    ELSE IF c = "long_s" THEN "S" ELSE c

\* char::to_lowercase: an uppercase letter gives its lowercase.
LowerChar(c) ==
    IF \E p \in CasePairs : p[2] = c
    THEN (CHOOSE p \in CasePairs : p[2] = c)[1]
    ELSE c

\* str::to_uppercase
to_uppercase(s) == [i \in 1..Len(s) |-> UpperChar(s[i])]

\* str::to_lowercase
to_lowercase(s) == [i \in 1..Len(s) |-> LowerChar(s[i])]

\* ------------------------------------------------------------ method match

\* The five arms of the match in execute_request; anything else is "Invalid".
MatchMethod(u) ==
    CASE u = <<"G","E","T">> -> "GET"
      [] u = <<"P","O","S","T">> -> "POST"
      [] u = <<"P","U","T">> -> "PUT"
      [] u = <<"D","E","L","E","T","E">> -> "DELETE"
      [] u = <<"P","A","T","C","H">> -> "PATCH"
      [] OTHER -> "Invalid"

\* The mutated parse: the method string is matched as given.
ParseMethodCaseSensitive(method_str) == MatchMethod(method_str)

\* let method = match method_str.to_uppercase().as_str() { ... }
ParseMethod(method_str) == MatchMethod(to_uppercase(method_str))

\* ------------------------------------------------------------- error values

\* magnus::Error::new(class, message): what the caller is handed.
Error(class, msg) == [tag |-> "err", class |-> class, msg |-> msg]

\* Err(Error::new(magnus::exception::arg_error(), "Invalid HTTP method"))
InvalidMethodError == Error("ArgumentError", "Invalid HTTP method")

\* A reqwest::Error as the core sees it: its two predicates and its text.
ReqwestError(timeout, connect, text) ==
    [is_timeout |-> timeout, is_connect |-> connect, to_string |-> text]

\* The mutated classifier: the connection test comes first.
map_reqwest_error_connect_first(error) ==
    IF error.is_connect
    THEN Error("RuntimeError", "Errno::ECONNREFUSED")
    ELSE IF error.is_timeout
    THEN Error("RuntimeError", "Net::ReadTimeout")
    ELSE Error("RuntimeError", error.to_string)

\* RustClient::map_reqwest_error
map_reqwest_error(error) ==
    IF error.is_timeout
    THEN Error("RuntimeError", "Net::ReadTimeout")
    ELSE IF error.is_connect
    THEN Error("RuntimeError", "Errno::ECONNREFUSED")
    ELSE Error("RuntimeError", error.to_string)

\* ------------------------------------------------------- caller's values

\* A Ruby value handed in by the binding: its class and, for a String, its text.
RString(text) == [type |-> "String", text |-> text]

RSymbol(text) == [type |-> "Symbol", text |-> text]

RInteger == [type |-> "Integer", text |-> <<>>]

\* String::try_convert(value): Ok for a Ruby String, Err for anything else.
try_convert_ok(value) == value.type = "String"

\* A Ruby Hash of header pairs, or a value that is no Hash (nil).
RHash(pairs) == [is_hash |-> TRUE, pairs |-> pairs]

RNil == [is_hash |-> FALSE, pairs |-> {}]

\* Characters reqwest accepts in a header name (HTTP token characters).
TokenChars ==
    {p[1] : p \in CasePairs} \cup {p[2] : p \in CasePairs} \cup {"-"}

\* HeaderName::try_from(&str) succeeds.
ValidHeaderName(s) == Len(s) > 0 /\ \A i \in 1..Len(s) : s[i] \in TokenChars

\* HeaderValue::try_from(&str) succeeds: no line break in the value.
ValidHeaderValue(s) == \A i \in 1..Len(s) : s[i] # "LF"

\* The pairs of the hash that pass both String::try_convert calls (line 80).
ConvertedPairs(headers) ==
    IF headers.is_hash
    THEN { p \in headers.pairs : try_convert_ok(p.key) /\ try_convert_ok(p.value) }
    ELSE {}

\* Lines 75-89: client.request(method, &url), .header(k, v) for every pair that
\* converts, .body(body) unless the body is empty.  reqwest keeps the first
\* error of the builder (a URL that does not parse, a header name or value it
\* rejects) and send() returns it.
BuildRequest(method, url, headers, body) ==
    [ method |-> method,
      url |-> url.text,
      headers |-> { <<p.key.text, p.value.text>> : p \in ConvertedPairs(headers) },
      body |-> [attached |-> body # <<>>, data |-> body],
      error |-> \/ ~url.parses
                \/ \E p \in ConvertedPairs(headers) :
                     ~(ValidHeaderName(p.key.text) /\ ValidHeaderValue(p.value.text)) ]

\* ---------------------------------------------------------------- responses

\* RustResponse::new(status, headers, body)
RustResponse(status, headers, body) ==
    [tag |-> "ok", status |-> status, headers |-> headers, body |-> body]

\* HashMap::new()
EmptyMap == [k \in {} |-> <<>>]

\* HashMap::insert(key, value): a later value replaces an earlier one.
Insert(map, key, value) ==
    [k \in DOMAIN map \cup {key} |-> IF k = key THEN value ELSE map[k]]

\* Lines 101-106: every header whose value is visible ASCII (to_str is Ok) is
\* inserted under its lowercased name, in the order the response lists them.
RECURSIVE NormalizeHeaders(_)
NormalizeHeaders(hs) ==
    IF hs = <<>>
    THEN EmptyMap
    ELSE LET n == Len(hs)
             rest == NormalizeHeaders(SubSeq(hs, 1, n - 1))
             h == hs[n]
         IN IF h.to_str_ok
            THEN Insert(rest, to_lowercase(h.name), h.value)
            ELSE rest

\* RustResponse::code: the status in decimal.
code(response) == ToString(response.status)

\* RustResponse::body
body_of(response) == response.body

\* The mutated lookup: the name is looked up as given.
get_header_exact(response, name) ==
    IF name \in DOMAIN response.headers
    THEN [some |-> TRUE, value |-> response.headers[name]]
    ELSE [some |-> FALSE, value |-> ""]

\* RustResponse::get_header: self.headers.get(&name.to_lowercase()).cloned()
get_header(response, name) ==
    IF to_lowercase(name) \in DOMAIN response.headers
    THEN [some |-> TRUE, value |-> response.headers[to_lowercase(name)]]
    ELSE [some |-> FALSE, value |-> ""]

\* The mutated body step: a failed read still yields a Response, its body cut.
ConvertBodyPartial(status, headers, text) ==
    IF text.tag = "err"
    THEN RustResponse(status, headers, <<>>)
    ELSE RustResponse(status, headers, text.body)

\* Lines 108-111: response.text().await; an error becomes a RuntimeError that
\* carries the error's text, otherwise the Response is built.
ConvertBody(status, headers, text) ==
    IF text.tag = "err"
    THEN Error("RuntimeError", text.error.to_string)
    ELSE RustResponse(status, headers, text.body)

\* The mutated send step: a failed send is sent again.
AfterSendErrorRetry(error) ==
    [pc |-> "connecting", result |-> [tag |-> "none"], resend |-> 1]

\* Lines 91-92: send().await.map_err(|e| self.map_reqwest_error(e))? leaves
\* execute_request with the mapped error; nothing is sent again.
AfterSendError(error) ==
    [pc |-> "returned", result |-> map_reqwest_error(error), resend |-> 0]

\* ---------------------------------------------------------------- the state

VARIABLES
    client,        \* "none" before new() succeeds, "built" afterwards
    newErr,        \* the error the last failed new() returned, or no error
    pc,            \* per thread: idle, connecting, waiting, reading, returned
    args,          \* per thread: the arguments of its current call
    req,           \* per thread: the request handed to send()
    elapsed,       \* per thread: seconds the exchange has taken so far
    answer,        \* per thread: what the server answered to its request
    raw,           \* per thread: the reqwest Response that send() returned
    partial,       \* per thread: status and headers, locals of convert_response
    result,        \* per thread: what execute_request returned
    cause,         \* per thread: what really ended the exchange
    calls,         \* execute_request calls made
    validCalls,    \* calls that passed the method match
    dispatches,    \* send() calls made
    connAttempts,  \* connection attempts the network saw
    follows        \* requests the transport sent to a Location target

vars ==
    << client, newErr, pc, args, req, elapsed, answer, raw, partial, result,
       cause, calls, validCalls, dispatches, connAttempts, follows >>

Threads == 1..NumThreads

\* The thread that makes the calls of the sequential specification.
MainThread == 1

NoError == [tag |-> "none"]

NoResult == [tag |-> "none"]

NoArgs == [tag |-> "none"]

NoRequest == [tag |-> "none"]

NoResponse == [tag |-> "none"]

NoPartial == [tag |-> "none"]

Init ==
    /\ client = "none"
    /\ newErr = NoError
    /\ pc = [t \in Threads |-> "idle"]
    /\ args = [t \in Threads |-> NoArgs]
    /\ req = [t \in Threads |-> NoRequest]
    /\ elapsed = [t \in Threads |-> 0]
    /\ answer = [t \in Threads |-> NoResponse]
    /\ raw = [t \in Threads |-> NoResponse]
    /\ partial = [t \in Threads |-> NoPartial]
    /\ result = [t \in Threads |-> NoResult]
    /\ cause = [t \in Threads |-> "none"]
    /\ calls = 0
    /\ validCalls = 0
    /\ dispatches = 0
    /\ connAttempts = 0
    /\ follows = 0

\* ------------------------------------------------------------------- new()

\* RustClient::new: Client::builder()...build() and Runtime::new(); either may
\* fail, and the failure is handed on as a RuntimeError with the error's text.
New(outcome) ==
    /\ client = "none"
    /\ IF outcome = "ok"
       THEN /\ client' = "built"
            /\ UNCHANGED newErr
       ELSE /\ newErr' = Error("RuntimeError",
                               IF outcome = "build_failed"
                               THEN "builder error"
                               ELSE "Too many open files (os error 24)")
            /\ UNCHANGED client
    /\ UNCHANGED << pc, args, req, elapsed, answer, raw, partial, result, cause,
                    calls, validCalls, dispatches, connAttempts, follows >>

\* --------------------------------------------------------- execute_request

\* Lines 58-92 up to the first suspension of send(): the method match, the
\* request builder, and the call of send().  A builder that holds an error
\* makes send() fail at once, before any connection is attempted.
ExecuteRequest(t, method_str, url, headers, body) ==
    /\ client = "built"
    /\ pc[t] = "idle"
    /\ calls < MaxCalls
    /\ calls' = calls + 1
    /\ args' = [args EXCEPT ![t] =
                  [tag |-> "args", method_str |-> method_str, url |-> url,
                   headers |-> headers, body |-> body]]
    /\ elapsed' = [elapsed EXCEPT ![t] = 0]
    /\ answer' = [answer EXCEPT ![t] = NoResponse]
    /\ raw' = [raw EXCEPT ![t] = NoResponse]
    /\ partial' = [partial EXCEPT ![t] = NoPartial]
    /\ LET method == ParseMethod(method_str)
           built == BuildRequest(method, url, headers, body)
           failed == AfterSendError(ReqwestError(FALSE, FALSE, "builder error"))
       IN IF method = "Invalid"
          THEN /\ pc' = [pc EXCEPT ![t] = "returned"]
               /\ result' = [result EXCEPT ![t] = InvalidMethodError]
               /\ cause' = [cause EXCEPT ![t] = "InvalidMethod"]
               /\ req' = [req EXCEPT ![t] = NoRequest]
               /\ UNCHANGED << validCalls, dispatches >>
          ELSE /\ validCalls' = validCalls + 1
               /\ req' = [req EXCEPT ![t] = [tag |-> "request"] @@ built]
               /\ IF built.error
                  THEN /\ pc' = [pc EXCEPT ![t] = failed.pc]
                       /\ result' = [result EXCEPT ![t] = failed.result]
                       /\ cause' = [cause EXCEPT ![t] = "Builder"]
                       /\ dispatches' = dispatches + 1 + failed.resend
                  ELSE /\ pc' = [pc EXCEPT ![t] = "connecting"]
                       /\ result' = [result EXCEPT ![t] = NoResult]
                       /\ cause' = [cause EXCEPT ![t] = "none"]
                       /\ dispatches' = dispatches + 1
    /\ UNCHANGED << client, newErr, connAttempts, follows >>

\* send() resolves to an error: the error is mapped and the call returns.
SendFails(t, error, why) ==
    LET failed == AfterSendError(error)
    IN /\ pc' = [pc EXCEPT ![t] = failed.pc]
       /\ result' = [result EXCEPT ![t] = failed.result]
       /\ dispatches' = dispatches + failed.resend
       /\ cause' = [cause EXCEPT ![t] = why]

\* The transport opens the connection.  The peer may refuse it; a connection
\* that takes longer than the connect timeout fails as a timed out connect.
Connect(t, outcome, delay) ==
    /\ pc[t] = "connecting"
    /\ connAttempts' = connAttempts + 1
    /\ IF outcome = "refuse"
       THEN /\ SendFails(t, ReqwestError(FALSE, TRUE, "error sending request"),
                         "Refused")
            /\ UNCHANGED elapsed
       ELSE IF delay > ConnectTimeoutSecs
       THEN /\ SendFails(t, ReqwestError(TRUE, TRUE, "error sending request"),
                         "ConnectTimeout")
            /\ UNCHANGED elapsed
       ELSE /\ pc' = [pc EXCEPT ![t] = "waiting"]
            /\ elapsed' = [elapsed EXCEPT ![t] = delay]
            /\ UNCHANGED << result, dispatches, cause >>
    /\ UNCHANGED << client, newErr, args, req, answer, raw, partial, calls,
                    validCalls, follows >>

\* What the echoing server puts in the body: the verb and the request body.
ServerBody(request) == <<request.method>> \o request.body.data

\* The response to the request the transport sends to a Location target.
TargetResponse ==
    [tag |-> "response", status |-> 200, headers |-> <<>>, body |-> <<"target">>]

\* A response header is the Location header.
IsLocation(h) == to_lowercase(h.name) = <<"l","o","c">>

\* The transport's redirect step: with Policy::none() the server's response
\* is returned as it is; a following policy requests the Location target.
Redirected(policy, response) ==
    /\ policy # "none"
    /\ response.status \in 300..399
    /\ \E i \in 1..Len(response.headers) : IsLocation(response.headers[i])

\* The response head arrives (or not): send() resolves, and on Ok
\* convert_response takes the status and the headers (lines 99-106).
ReceiveHead(t, delay, outcome) ==
    /\ pc[t] = "waiting"
    /\ IF elapsed[t] + delay > RequestTimeoutSecs
       THEN /\ SendFails(t, ReqwestError(TRUE, FALSE, "error sending request"),
                         "Timeout")
            /\ UNCHANGED << elapsed, answer, raw, partial, follows >>
       ELSE IF outcome.tag = "protocol"
       THEN /\ SendFails(t, ReqwestError(FALSE, FALSE, "error sending request"),
                         "Protocol")
            /\ UNCHANGED << elapsed, answer, raw, partial, follows >>
       ELSE LET served == [tag |-> "response", status |-> outcome.status,
                           headers |-> outcome.headers,
                           body |-> ServerBody(req[t])]
                got == IF Redirected(RedirectPolicy, served)
                       THEN TargetResponse
                       ELSE served
            IN /\ answer' = [answer EXCEPT ![t] = served]
               /\ raw' = [raw EXCEPT ![t] = got]
               /\ follows' = IF Redirected(RedirectPolicy, served)
                             THEN follows + 1
                             ELSE follows
               /\ partial' = [partial EXCEPT ![t] =
                                [tag |-> "partial", status |-> got.status,
                                 headers |-> NormalizeHeaders(got.headers)]]
               /\ elapsed' = [elapsed EXCEPT ![t] = elapsed[t] + delay]
               /\ pc' = [pc EXCEPT ![t] = "reading"]
               /\ UNCHANGED << result, dispatches, cause >>
    /\ UNCHANGED << client, newErr, args, req, calls, validCalls, connAttempts >>

\* The mutated hand-over: the call reads the body of another call's response.
OtherResponse(t) ==
    IF \E u \in Threads : u # t /\ raw[u].tag = "response"
    THEN raw[CHOOSE u \in Threads : u # t /\ raw[u].tag = "response"]
    ELSE raw[t]

\* The Response that send() returned to this call (line 91), moved into
\* convert_response (line 94): each call reads the body of its own.
OwnResponse(t) == raw[t]

\* response.text().await (line 108): the body is read to its end, unless the
\* request timeout elapses first or the connection drops.
ReadBody(t, delay, outcome) ==
    /\ pc[t] = "reading"
    /\ LET text == IF elapsed[t] + delay > RequestTimeoutSecs
                   THEN [tag |-> "err",
                         error |-> ReqwestError(TRUE, FALSE,
                                     "error decoding response body")]
                   ELSE IF outcome = "dropped"
                   THEN [tag |-> "err",
                         error |-> ReqwestError(FALSE, FALSE,
                                     "error decoding response body")]
                   ELSE [tag |-> "ok", body |-> OwnResponse(t).body]
       IN /\ result' = [result EXCEPT ![t] =
                          ConvertBody(partial[t].status, partial[t].headers, text)]
          /\ cause' = [cause EXCEPT ![t] =
                         IF elapsed[t] + delay > RequestTimeoutSecs
                         THEN "BodyTimeout"
                         ELSE IF outcome = "dropped" THEN "BodyDropped" ELSE "none"]
    /\ pc' = [pc EXCEPT ![t] = "returned"]
    /\ UNCHANGED << client, newErr, args, req, elapsed, answer, raw, partial,
                    calls, validCalls, dispatches, connAttempts, follows >>

\* The caller is done with the outcome of its call: the Result returned by
\* execute_request (line 64) is dropped, and the thread may call again.
Discard(t) ==
    /\ pc[t] = "returned"
    /\ pc' = [pc EXCEPT ![t] = "idle"]
    /\ args' = [args EXCEPT ![t] = NoArgs]
    /\ req' = [req EXCEPT ![t] = NoRequest]
    /\ elapsed' = [elapsed EXCEPT ![t] = 0]
    /\ answer' = [answer EXCEPT ![t] = NoResponse]
    /\ raw' = [raw EXCEPT ![t] = NoResponse]
    /\ partial' = [partial EXCEPT ![t] = NoPartial]
    /\ result' = [result EXCEPT ![t] = NoResult]
    /\ cause' = [cause EXCEPT ![t] = "none"]
    /\ UNCHANGED << client, newErr, calls, validCalls, dispatches, connAttempts,
                    follows >>

\* ------------------------------------------------------------------ inputs

NewOutcomes == {"ok", "build_failed", "runtime_failed"}

MethodInputs ==
    { <<"G","E","T">>, <<"g","e","t">>, <<"P","O","S","T">>,
      <<"p","o","long_s","t">>, <<"P","u","t">>, <<"d","e","l","e","t","e">>,
      <<"P","a","t","c","h">>, <<"F","O","O">>, <<"G","E","T","S">>, <<>> }

UrlInputs ==
    { [text |-> "http://host/path", parses |-> TRUE],
      [text |-> "not a url", parses |-> FALSE] }

GoodPair == [key |-> RString(<<"X","-","a">>), value |-> RString(<<"a","b","c">>)]

SecondPair == [key |-> RString(<<"A","c","c","e","p","t">>), value |-> RString(<<"x">>)]

SymbolKeyPair == [key |-> RSymbol(<<"h","o","s","t">>), value |-> RString(<<"h">>)]

IntegerValuePair == [key |-> RString(<<"X","-","d">>), value |-> RInteger]

BadNamePair == [key |-> RString(<<"X"," ","a">>), value |-> RString(<<"a">>)]

BadValuePair == [key |-> RString(<<"X","-","e">>), value |-> RString(<<"a","LF","b">>)]

HeaderInputs ==
    { RNil, RHash({}), RHash({GoodPair}), RHash({GoodPair, SecondPair}),
      RHash({GoodPair, SymbolKeyPair}), RHash({GoodPair, IntegerValuePair}),
      RHash({GoodPair, BadNamePair}), RHash({BadValuePair}) }

BodyInputs == { <<>>, <<"p">> }

\* Seconds a phase of the exchange may take.
Delays == {0, 6, 11}

ConnectOutcomes == {"accept", "refuse"}

BodyOutcomes == {"complete", "dropped"}

WireHeader(name, value, ok) == [name |-> name, value |-> value, to_str_ok |-> ok]

LocationHeader == WireHeader(<<"L","o","c">>, "/next", TRUE)

ResponseHeaderLists ==
    { <<>>,
      <<LocationHeader>>,
      <<WireHeader(<<"X","-","a">>, "v1", TRUE)>>,
      <<WireHeader(<<"X","-","a">>, "v1", TRUE), WireHeader(<<"x","-","A">>, "v2", TRUE)>>,
      <<WireHeader(<<"x","-","a">>, "v1", TRUE), WireHeader(<<"x","-","a">>, "bytes", FALSE)>>,
      <<WireHeader(<<"x","-","a">>, "bytes", FALSE)>>,
      <<LocationHeader, WireHeader(<<"x","-","a">>, "v1", TRUE)>> }

Statuses == {200, 302}

ProtocolError == [tag |-> "protocol", status |-> 0, headers |-> <<>>]

ResponseHead(status, headers) == [tag |-> "head", status |-> status, headers |-> headers]

HeadOutcomes ==
    {ProtocolError} \cup {ResponseHead(s, hs) : s \in Statuses, hs \in ResponseHeaderLists}

\* The token a thread puts in the body of its request.
Token(t) == <<"t", ToString(t)>>

\* --------------------------------------------------------- specifications

\* One caller: calls follow one another on one client.
Next ==
    \/ \E o \in NewOutcomes : New(o)
    \/ \E m \in MethodInputs, u \in UrlInputs, h \in HeaderInputs, b \in BodyInputs :
         ExecuteRequest(MainThread, m, u, h, b)
    \/ \E o \in ConnectOutcomes, d \in Delays : Connect(MainThread, o, d)
    \/ \E d \in Delays, o \in HeadOutcomes : ReceiveHead(MainThread, d, o)
    \/ \E d \in Delays, o \in BodyOutcomes : ReadBody(MainThread, d, o)
    \/ Discard(MainThread)

Spec == Init /\ [][Next]_vars

\* Several threads call one client at once; each sends its own token.
NextConc ==
    \/ New("ok")
    \/ \E t \in Threads :
         ExecuteRequest(t, <<"p","o","s","t">>,
                        [text |-> "http://host/path", parses |-> TRUE],
                        RHash({}), Token(t))
    \/ \E t \in Threads, o \in ConnectOutcomes : Connect(t, o, 0)
    \/ \E t \in Threads, d \in {0, 11}, s \in {200, 500} :
         ReceiveHead(t, d, ResponseHead(s, <<>>))
    \/ \E t \in Threads, o \in BodyOutcomes : ReadBody(t, 0, o)
    \/ \E t \in Threads : Discard(t)

SpecConc == Init /\ [][NextConc]_vars

\* ------------------------------------------------------------------ claims

\* The five verbs, spelled in capitals.
VerbTexts ==
    { <<"G","E","T">>, <<"P","O","S","T">>, <<"P","U","T">>,
      <<"D","E","L","E","T","E">>, <<"P","A","T","C","H">> }

Returned(t) == pc[t] = "returned"

\* A call that came back with InvalidMethod built no request, and the step
\* that returned it made no send() call and no connection attempt.
InvalidMethodStep ==
    \A t \in Threads :
        (pc[t] = "idle" /\ result'[t] = InvalidMethodError) =>
            /\ req'[t] = NoRequest
            /\ dispatches' = dispatches
            /\ connAttempts' = connAttempts

\* C1: execute fails with InvalidMethod exactly when the uppercased method is
\* none of GET, POST, PUT, DELETE, PATCH (so "get" and "Patch" are accepted),
\* and a call that fails so builds no request, calls send() not at all and
\* causes no connection attempt.
C1_InvalidMethodIff ==
    /\ [](\A t \in Threads : Returned(t) =>
            /\ (result[t] = InvalidMethodError)
                 <=> (to_uppercase(args[t].method_str) \notin VerbTexts)
            /\ args[t].method_str \in {<<"g","e","t">>, <<"P","a","t","c","h">>}
                 => result[t] # InvalidMethodError
            /\ result[t] = InvalidMethodError => req[t] = NoRequest)
    /\ [][InvalidMethodStep]_vars

\* An unknown verb is refused after an earlier call had gone to the network.
C1_Witness ==
    /\ Returned(MainThread)
    /\ args[MainThread].method_str = <<"F","O","O">>
    /\ result[MainThread] = InvalidMethodError
    /\ calls = 2
    /\ connAttempts = 1

\* C2: a call returns one outcome: a Response with the status, the headers
\* and the whole body of the response it received, or an error and nothing
\* else; when the body cannot be read after the head arrived, it is an error.
C2_OneOutcome ==
    \A t \in Threads :
        /\ ~Returned(t) => result[t] = NoResult
        /\ Returned(t) =>
             /\ result[t].tag \in {"ok", "err"}
             /\ result[t].tag = "ok" =>
                  /\ DOMAIN result[t] = {"tag", "status", "headers", "body"}
                  /\ cause[t] = "none"
                  /\ result[t].status = raw[t].status
                  /\ result[t].headers = NormalizeHeaders(raw[t].headers)
                  /\ result[t].body = raw[t].body
             /\ result[t].tag = "err" =>
                  DOMAIN result[t] = {"tag", "class", "msg"}
             /\ cause[t] \in {"BodyTimeout", "BodyDropped"} =>
                  result[t].tag = "err"

\* The head had arrived with status and headers, the body read failed, and
\* the caller holds an error.
C2_Witness ==
    /\ Returned(MainThread)
    /\ partial[MainThread].tag = "partial"
    /\ partial[MainThread].headers # EmptyMap
    /\ cause[MainThread] = "BodyDropped"
    /\ result[MainThread].tag = "err"

\* C3: send() is called once for every call that passed the method match and
\* never again, whatever the outcome; the network sees at most one connection
\* attempt per send().
C3_OneDispatchPerValidCall ==
    /\ dispatches = validCalls
    /\ connAttempts <= dispatches
    /\ validCalls <= calls

\* A call whose exchange timed out has returned, and nothing was sent again.
C3_Witness ==
    /\ Returned(MainThread)
    /\ cause[MainThread] = "Timeout"
    /\ validCalls = 2
    /\ dispatches = 2
    /\ calls = 2

TimeoutCauses == {"ConnectTimeout", "Timeout", "BodyTimeout"}

TimeoutError == Error("RuntimeError", "Net::ReadTimeout")

ConnectionRefusedError == Error("RuntimeError", "Errno::ECONNREFUSED")

\* C4: a call during which the request timeout or the connect timeout
\* elapsed, in whichever phase, fails with the Timeout error.
C4_TimeoutInEveryPhase ==
    \A t \in Threads :
        (Returned(t) /\ cause[t] \in TimeoutCauses) => result[t] = TimeoutError

\* The kind of failure a cause is.
KindOf(c) ==
    CASE c = "InvalidMethod" -> "InvalidMethod"
      [] c \in TimeoutCauses -> "Timeout"
      [] c = "Refused" -> "ConnectionRefused"
      [] OTHER -> "Other"

\* The errors the caller has been handed, each with its kind.
HandedErrors ==
    (IF newErr.tag = "err" THEN {<<"ConstructionFailure", newErr>>} ELSE {})
    \cup { <<KindOf(cause[t]), result[t]>> :
             t \in {u \in Threads : Returned(u) /\ result[u].tag = "err"} }

\* C5: two errors of different kinds are different values (class, message).
C5_KindsDistinguishable ==
    \A e1 \in HandedErrors, e2 \in HandedErrors :
        e1[1] # e2[1] => e1[2] # e2[2]

\* C6: a failed send() is classified by what it was: a timeout (also a timed
\* out connect) is Timeout, a refused connection is ConnectionRefused, any
\* other failure is Other with the failure's own text.
C6_Classification ==
    \A t \in Threads :
        Returned(t) =>
            /\ cause[t] \in {"ConnectTimeout", "Timeout"} => result[t] = TimeoutError
            /\ cause[t] = "Refused" => result[t] = ConnectionRefusedError
            /\ cause[t] = "Builder" =>
                 result[t] = Error("RuntimeError", "builder error")
            /\ cause[t] = "Protocol" =>
                 result[t] = Error("RuntimeError", "error sending request")

\* A connect that timed out came back as Timeout.
C6_Witness ==
    /\ Returned(MainThread)
    /\ cause[MainThread] = "ConnectTimeout"
    /\ result[MainThread] = TimeoutError

\* The pairs of a header mapping that HTTP can carry.
Representable(headers) ==
    { <<p.key.text, p.value.text>> :
        p \in { q \in headers.pairs :
                  /\ q.key.type = "String"
                  /\ q.value.type = "String"
                  /\ ValidHeaderName(q.key.text)
                  /\ ValidHeaderValue(q.value.text) } }

\* C7: a header entry that is no valid HTTP header text is dropped and does
\* not fail the call: a call with a known verb and a URL that parses goes to
\* the network carrying exactly the representable entries.
C7_BadHeadersDropped ==
    \A t \in Threads :
        ( /\ args[t].tag = "args"
          /\ to_uppercase(args[t].method_str) \in VerbTexts
          /\ args[t].url.parses ) =>
            /\ req[t].tag = "request"
            /\ ~req[t].error
            /\ cause[t] # "Builder"
            /\ req[t].headers = Representable(args[t].headers)

UpperLetters == {p[2] : p \in CasePairs}

IsLowercase(s) == \A i \in 1..Len(s) : s[i] \notin UpperLetters

SameLetter(c, d) == c = d \/ <<c, d>> \in CasePairs \/ <<d, c>> \in CasePairs

EqIgnoreCase(a, b) ==
    Len(a) = Len(b) /\ \A i \in 1..Len(a) : SameLetter(a[i], b[i])

LookupNames ==
    { <<"X","-","a">>, <<"x","-","A">>, <<"x","-","a">>, <<"X","-","A">>,
      <<"L","O","C">>, <<"l","o","c">>, <<"x","-","d">> }

\* The text values of the received headers whose name is n, ignoring case.
ReceivedValues(t, n) ==
    { raw[t].headers[i].value :
        i \in { j \in 1..Len(raw[t].headers) :
                  /\ EqIgnoreCase(raw[t].headers[j].name, n)
                  /\ raw[t].headers[j].to_str_ok } }

\* C8: in a returned Response every header key is lowercase; names that are
\* equal ignoring case look up the same; a lookup gives a text value the
\* response carried under that name, and nothing when it carried none.
C8_HeaderLookup ==
    \A t \in Threads :
        (Returned(t) /\ result[t].tag = "ok") =>
            /\ \A k \in DOMAIN result[t].headers : IsLowercase(k)
            /\ \A n1 \in LookupNames, n2 \in LookupNames :
                 EqIgnoreCase(n1, n2) =>
                     get_header(result[t], n1) = get_header(result[t], n2)
            /\ \A n \in LookupNames :
                 IF ReceivedValues(t, n) = {}
                 THEN ~get_header(result[t], n).some
                 ELSE /\ get_header(result[t], n).some
                      /\ get_header(result[t], n).value \in ReceivedValues(t, n)

\* A response with the same header in two spellings was returned, and the
\* lookup in capitals finds it.
C8_Witness ==
    /\ Returned(MainThread)
    /\ result[MainThread].tag = "ok"
    /\ Len(raw[MainThread].headers) = 2
    /\ raw[MainThread].headers[1].name = <<"X","-","a">>
    /\ raw[MainThread].headers[2].name = <<"x","-","A">>
    /\ get_header(result[MainThread], <<"X","-","A">>).some

IsRedirect(response) ==
    /\ response.tag = "response"
    /\ response.status \in 300..399
    /\ \E i \in 1..Len(response.headers) : IsLocation(response.headers[i])

\* C9: a 3xx answer with a Location header is not followed: no request goes
\* to the target, and the Response returned has the 3xx status, the headers
\* and the body of the answer itself.
C9_RedirectNotFollowed ==
    /\ follows = 0
    /\ \A t \in Threads :
         IsRedirect(answer[t]) =>
             /\ partial[t].status = answer[t].status
             /\ (Returned(t) /\ result[t].tag = "ok") =>
                  /\ code(result[t]) = "302"
                  /\ result[t].headers = NormalizeHeaders(answer[t].headers)
                  /\ get_header(result[t], <<"L","o","c">>).some
                  /\ body_of(result[t]) = answer[t].body

\* The server answered 302 with a Location header and the call returned.
C9_Witness ==
    /\ Returned(MainThread)
    /\ IsRedirect(answer[MainThread])
    /\ result[MainThread].tag = "ok"
    /\ code(result[MainThread]) = "302"

\* C10: with calls of several threads in flight on one client, a call that
\* returns a Response returns the answer to its own request (its own token,
\* the status the server gave it), and a call fails only when its own
\* exchange failed, with the error of its own failure.
C10_NoCrossTalk ==
    \A t \in Threads :
        Returned(t) =>
            /\ cause[t] = "none" =>
                 /\ result[t].tag = "ok"
                 /\ result[t].body = <<"POST">> \o Token(t)
                 /\ result[t].status = answer[t].status
            /\ cause[t] # "none" => result[t].tag = "err"
            /\ cause[t] \in {"ConnectTimeout", "Timeout"} => result[t] = TimeoutError
            /\ cause[t] = "Refused" => result[t] = ConnectionRefusedError

\* Two calls ran at once; the first got its own answer, the second timed out.
C10_Witness ==
    /\ Returned(1) /\ Returned(2)
    /\ result[1].tag = "ok"
    /\ result[1].body = <<"POST">> \o Token(1)
    /\ cause[2] = "Timeout"
    /\ result[2] = TimeoutError

====
